---- MODULE Spec2Model ----
(***************************************************************************)
(* Model of cfg2toml/processing.py: the value processors (coerce_scalar,   *)
(* split_comment, split_list, split_kv_pairs), the intermediate            *)
(* representations (Commented, CommentedList, CommentedKV) with their      *)
(* as_toml_obj materializers, and the appliers (apply, apply_nested).      *)
(*                                                                         *)
(* A Python str is a sequence of one-character strings.  Optional[str] is  *)
(* a sequence of length 0 (None) or 1 (the string).                        *)
(***************************************************************************)
EXTENDS Integers, Sequences, FiniteSets, TLC

VARIABLES pc, op, value, sep, key_sep, subsplit_dangling, comment_prefixes,
          ret, obj, container, path, fn, log

vars == <<pc, op, value, sep, key_sep, subsplit_dangling, comment_prefixes,
          ret, obj, container, path, fn, op, log>>

\* ---------------------------------------------------------------- bounds

MaxLineLen == 4

MaxScalarLen == 3

MaxListLen == 5

MaxKVLen == 5

MaxDepth == 3

MaxPathLen == 3

\* ------------------------------------------------------- Python str model

CP == <<"#", ";">>

Unused == <<>>

None == <<>>

Some(s) == <<s>>

NL == "\n"

Whitespace == {" ", NL}

Str(alphabet, n) == UNION {[1..k -> alphabet] : k \in 0..n}

RECURSIVE lstrip(_, _)
lstrip(s, chars) ==
    IF s = <<>> \/ s[1] \notin chars THEN s ELSE lstrip(Tail(s), chars)

RECURSIVE rstrip(_, _)
rstrip(s, chars) ==
    IF s = <<>> \/ s[Len(s)] \notin chars THEN s
    ELSE rstrip(SubSeq(s, 1, Len(s) - 1), chars)

strip(s) == rstrip(lstrip(s, Whitespace), Whitespace)

Chars(s) == {s[i] : i \in 1..Len(s)}

\* str.find, 1-based; 0 when sub does not occur
find(s, sub) ==
    LET hits == {i \in 1..(Len(s) - Len(sub) + 1) :
                    SubSeq(s, i, i + Len(sub) - 1) = sub}
    IN  IF hits = {} THEN 0 ELSE CHOOSE i \in hits : \A j \in hits : i <= j

contains(s, sub) == find(s, sub) # 0

startswith(s, p) == Len(s) >= 1 /\ s[1] = p

\* str.split(sep) for a non-empty sep
RECURSIVE split(_, _)
split(s, by) ==
    LET i == find(s, by)
    IN  IF i = 0 THEN <<s>>
        ELSE <<SubSeq(s, 1, i - 1)>> \o split(SubSeq(s, i + Len(by), Len(s)), by)

\* str.replace(old, "")
RECURSIVE replace(_, _)
replace(s, old) ==
    LET i == find(s, old)
    IN  IF old = <<>> \/ i = 0 THEN s
        ELSE SubSeq(s, 1, i - 1) \o replace(SubSeq(s, i + Len(old), Len(s)), old)

\* str.splitlines: no line for the empty string, none after a final newline
RECURSIVE splitlines(_)
splitlines(s) ==
    LET i == find(s, <<NL>>)
    IN  IF s = <<>> THEN <<>>
        ELSE IF i = 0 THEN <<s>>
        ELSE <<SubSeq(s, 1, i - 1)>> \o splitlines(SubSeq(s, i + 1, Len(s)))

\* [p for p in comment_prefixes if p in value]
RECURSIVE prefixes_in(_, _)
prefixes_in(cp, v) ==
    IF cp = <<>> THEN <<>>
    ELSE (IF cp[1] \in Chars(v) THEN <<cp[1]>> ELSE <<>>) \o prefixes_in(Tail(cp), v)

\* ------------------------------------------------ Commented, private helpers

NotGiven == [given |-> FALSE, value |-> <<>>, comment |-> None]

Commented(v, c) == [given |-> TRUE, value |-> v, comment |-> c]

CommentOnly(c) == [given |-> FALSE, value |-> <<>>, comment |-> c]

has_comment(entry) == entry.comment # None /\ entry.comment[1] # <<>>

comment_only(entry) == ~entry.given

\* mutant: splits at the last occurrence of the separator (rsplit)
split_in_2_last(v, by) ==
    LET hits == {i \in 1..Len(v) : SubSeq(v, i, i + Len(by) - 1) = by}
        i    == IF hits = {} THEN 0 ELSE CHOOSE h \in hits : \A j \in hits : j <= h
    IN  IF i = 0 THEN <<Some(v), None>>
        ELSE <<Some(SubSeq(v, 1, i - 1)), Some(SubSeq(v, i + Len(by), Len(v)))>>

split_in_2(v, by) ==
    LET i == find(v, by)
    IN  IF i = 0 THEN <<Some(v), None>>
        ELSE <<Some(SubSeq(v, 1, i - 1)), Some(SubSeq(v, i + Len(by), Len(v)))>>

strip_comment(msg, prefixes) ==
    IF msg = None \/ msg[1] = <<>> THEN None
    ELSE Some(strip(lstrip(strip(msg[1]), Chars(prefixes))))

noop(x) == x

\* ------------------------------------------------- simple value processors

UpperCase == <<"A", "B", "C", "D", "E", "F", "G", "H", "I", "J", "K", "L", "M",
               "N", "O", "P", "Q", "R", "S", "T", "U", "V", "W", "X", "Y", "Z">>

LowerCase == <<"a", "b", "c", "d", "e", "f", "g", "h", "i", "j", "k", "l", "m",
               "n", "o", "p", "q", "r", "s", "t", "u", "v", "w", "x", "y", "z">>

Digits == <<"0", "1", "2", "3", "4", "5", "6", "7", "8", "9">>

lower_char(c) ==
    IF \E i \in 1..Len(UpperCase) : UpperCase[i] = c
    THEN LowerCase[CHOOSE i \in 1..Len(UpperCase) : UpperCase[i] = c]
    ELSE c

lower(s) == [i \in 1..Len(s) |-> lower_char(s[i])]

count(s, c) == Cardinality({i \in 1..Len(s) : s[i] = c})

isdecimal(s) == s # <<>> /\ \A i \in 1..Len(s) : \E d \in 1..Len(Digits) : Digits[d] = s[i]

digit_value(c) == (CHOOSE d \in 1..Len(Digits) : Digits[d] = c) - 1

\* the scalars coerce_scalar returns, and the exception float() raises
PyInt(n) == [t |-> "int", n |-> n, scale |-> 0, s |-> <<>>]

PyFloat(sign, mant, scale) == [t |-> "float", n |-> mant, scale |-> scale, s |-> sign]

PyFloatSpecial(sign, name) == [t |-> "float", n |-> 0, scale |-> 0, s |-> sign \o name]

PyBool(b) == [t |-> "bool", n |-> IF b THEN 1 ELSE 0, scale |-> 0, s |-> <<>>]

PyStr(s) == [t |-> "str", n |-> 0, scale |-> 0, s |-> s]

ValueError == [t |-> "ValueError", n |-> 0, scale |-> 0, s |-> <<>>]

is_true(v) ==
    lower(v) \in {<<"t", "r", "u", "e">>, <<"1">>, <<"y", "e", "s">>, <<"o", "n">>}

is_false(v) ==
    lower(v) \in {<<"f", "a", "l", "s", "e">>, <<"0">>, <<"n", "o">>, <<"o", "f", "f">>,
                  <<"n", "o", "n", "e">>, <<"n", "u", "l", "l">>, <<"n", "i", "l">>}

INF == <<"i", "n", "f">>

NAN == <<"n", "a", "n">>

is_float(v) ==
    LET cleaned == replace(replace(lstrip(lower(v), {"+", "-"}), <<".">>), <<"_">>)
    IN  (isdecimal(cleaned) /\ count(v, ".") <= 1) \/ cleaned \in {INF, NAN}

\* int(): the number a string of decimal digits denotes
RECURSIVE int(_)
int(s) == IF s = <<>> THEN 0 ELSE 10 * int(SubSeq(s, 1, Len(s) - 1)) + digit_value(s[Len(s)])

\* digits with single underscores between digits, as float() accepts them
digitpart(s) ==
    /\ s # <<>>
    /\ s[1] # "_" /\ s[Len(s)] # "_"
    /\ \A i \in 1..Len(s) : s[i] = "_" \/ isdecimal(<<s[i]>>)
    /\ \A i \in 1..(Len(s) - 1) : ~(s[i] = "_" /\ s[i + 1] = "_")

RECURSIVE normalize(_, _, _)
normalize(sign, mant, scale) ==
    IF scale > 0 /\ mant % 10 = 0 THEN normalize(sign, mant \div 10, scale - 1)
    ELSE PyFloat(sign, mant, scale)

\* float(): the builtin's str parser, without exponents (is_float admits none)
float(v) ==
    LET t     == lower(v)
        sign  == IF t # <<>> /\ t[1] = "-" THEN <<"-">> ELSE <<>>
        body  == IF t # <<>> /\ t[1] \in {"+", "-"} THEN Tail(t) ELSE t
        parts == split(body, <<".">>)
        ip    == parts[1]
        fp    == IF Len(parts) = 2 THEN parts[2] ELSE <<>>
    IN  IF body \in {INF, NAN, INF \o <<"i", "n", "i", "t", "y">>}
        THEN PyFloatSpecial(IF body = NAN THEN <<>> ELSE sign, SubSeq(body, 1, 3))
        ELSE IF /\ Len(parts) <= 2
                /\ ip = <<>> \/ digitpart(ip)
                /\ fp = <<>> \/ digitpart(fp)
                /\ ip # <<>> \/ fp # <<>>
        THEN normalize(sign, int(replace(ip \o fp, <<"_">>)), Len(replace(fp, <<"_">>)))
        ELSE ValueError

\* mutant: the boolean literals are tested before the numeric ones
coerce_scalar_bool_first(v0) ==
    LET v == strip(v0)
    IN  IF is_true(v) THEN PyBool(TRUE)
        ELSE IF is_false(v) THEN PyBool(FALSE)
        ELSE IF isdecimal(v) THEN PyInt(int(v))
        ELSE IF is_float(v) THEN float(v)
        ELSE PyStr(v)

coerce_scalar(v0) ==
    LET v == strip(v0)
    IN  IF isdecimal(v) THEN PyInt(int(v))
        ELSE IF is_float(v) THEN float(v)
        ELSE IF is_true(v) THEN PyBool(TRUE)
        ELSE IF is_false(v) THEN PyBool(FALSE)
        ELSE PyStr(v)

\* ------------------------------------------------------- coercion functions

\* A CoerceFn is passed around as a value: its name and, for the closures
\* _split and _split_kv, the variables they capture.
Noop == [name |-> "noop"]

CoerceScalarFn == [name |-> "coerce_scalar"]

SplitFn(s, coerce_fn) == [name |-> "_split", sep |-> s, coerce_fn |-> coerce_fn]

SplitKVPairFn(ks, ps, coerce_fn) ==
    [name |-> "_split_kv", key_sep |-> ks, pair_sep |-> ps, coerce_fn |-> coerce_fn]

RECURSIVE nonempty(_)
nonempty(pieces) ==
    IF pieces = <<>> THEN <<>>
    ELSE (IF pieces[1] # <<>> THEN <<pieces[1]>> ELSE <<>>) \o nonempty(Tail(pieces))

RECURSIVE with_key_sep(_, _)
with_key_sep(items, ks) ==
    IF items = <<>> THEN <<>>
    ELSE (IF contains(items[1], ks) THEN <<items[1]>> ELSE <<>>)
         \o with_key_sep(Tail(items), ks)

RECURSIVE coerce(_, _)

\* _split: [coerce_fn(v.strip()) for v in line.split(sep) if v]
list_split(line, s, coerce_fn) ==
    LET kept == nonempty(split(line, s))
    IN  [i \in 1..Len(kept) |-> coerce(coerce_fn, strip(kept[i]))]

\* _split_kv
kv_split(line, ks, ps, coerce_fn) ==
    LET items == with_key_sep(split(strip(line), ps), ks)
    IN  [i \in 1..Len(items) |->
            LET kv == split_in_2(items[i], ks)
            IN  <<strip(kv[1][1]), coerce(coerce_fn, strip(kv[2][1]))>>]

\* coerce_fn(x)
coerce(coerce_fn, x) ==
    CASE coerce_fn.name = "noop"          -> noop(x)
      [] coerce_fn.name = "coerce_scalar" -> coerce_scalar(x)
      [] coerce_fn.name = "_split"        -> list_split(x, coerce_fn.sep, coerce_fn.coerce_fn)
      [] coerce_fn.name = "_split_kv"     ->
            kv_split(x, coerce_fn.key_sep, coerce_fn.pair_sep, coerce_fn.coerce_fn)

\* ------------------------------------------------------------ split_comment

split_comment(v0, coerce_fn, cp) ==
    LET v        == strip(v0)
        prefixes == prefixes_in(cp, v)
    IN  IF prefixes = <<>> \/ Len(splitlines(v)) > 1
        THEN Commented(coerce(coerce_fn, v), None)
        ELSE IF \E i \in 1..Len(cp) : startswith(v, cp[i])
        THEN CommentOnly(strip_comment(Some(v), cp))
        ELSE LET parts == split_in_2(v, <<prefixes[1]>>)
             IN  Commented(coerce(coerce_fn, strip(parts[1][1])),
                           strip_comment(parts[2], cp))

split_scalar(v0, cp) == split_comment(v0, CoerceScalarFn, cp)

\* --------------------------------------------------- toml nodes (toml_adapter)

\* an element of an array body: a value item or a full-line comment
ValueItem(v) == [kind |-> "value", value |-> v, comment |-> None]

CommentItem(c) == [kind |-> "comment", value |-> <<>>, comment |-> Some(c)]

\* array(); Array.multiline(flag)
array(multiline) == [type |-> "array", multiline |-> multiline, items |-> <<>>, comment |-> None]

\* Array.append(value)
array_append(out, v) == [out EXCEPT !.items = Append(@, ValueItem(v))]

\* Item.comment(text) on a whole node
node_comment(out, c) == [out EXCEPT !.comment = Some(c)]

RECURSIVE array_extend(_, _)
array_extend(out, values) ==
    IF values = <<>> THEN out
    ELSE array_extend(array_append(out, values[1]), Tail(values))

\* mutant: the comment lands on the first element of the array
add_comment_array_first_item(toml_array, cmt) ==
    [toml_array EXCEPT !.items[1].comment = Some(cmt)]

add_comment_array_last_item(toml_array, cmt) ==
    [toml_array EXCEPT !.items[Len(toml_array.items)].comment = Some(cmt)]

add_comment_array_entire_line(toml_array, cmt_msg) ==
    [toml_array EXCEPT !.items = Append(@, CommentItem(cmt_msg))]

\* ------------------------------------------------------------ CommentedList

CommentedList(data) == [cls |-> "CommentedList", data |-> data, comment |-> None]

value_or(entry, fallback) == IF entry.given THEN entry.value ELSE fallback

\* the loop of CommentedList.as_toml_obj from entry i on; yields the array
\* and the value left in self.comment
RECURSIVE list_loop(_, _, _, _)
list_loop(self, i, out, multiline) ==
    IF i > Len(self.data) THEN [out |-> out, self |-> self]
    ELSE LET entry  == self.data[i]
             values == value_or(entry, <<>>)
             out1   == array_extend(out, values)
         IN  IF ~has_comment(entry) THEN list_loop(self, i + 1, out1, multiline)
             ELSE IF ~multiline
             THEN [out  |-> node_comment(out1, entry.comment[1]),
                   self |-> [self EXCEPT !.comment = entry.comment]]
             ELSE IF Len(values) > 0
             THEN list_loop(self, i + 1,
                            add_comment_array_last_item(out1, entry.comment[1]), multiline)
             ELSE list_loop(self, i + 1,
                            add_comment_array_entire_line(out1, entry.comment[1]), multiline)

CommentedList_as_toml_obj(self) ==
    LET multiline == Len(self.data) > 1
    IN  list_loop(self, 1, array(multiline), multiline)

\* ----------------------------------------------------------------- split_list

\* mutant: the separator is never extended, lines are always sub-split
list_sep_always_split(s, values, subsplit) == s

\* lines 297-298: the separator _split uses
list_sep(s, values, subsplit) ==
    IF ~subsplit /\ Len(values) > 1 THEN s \o <<NL>> ELSE s

split_list(v, s, coerce_fn, subsplit, cp0) ==
    LET cp     == replace(cp0, s)
        values == splitlines(strip(v))
        s2     == list_sep(s, values, subsplit)
    IN  CommentedList([i \in 1..Len(values) |->
                          split_comment(values[i], SplitFn(s2, coerce_fn), cp)])

\* ------------------------------------------------- specification: split_comment

CommentAlphabet == {"a", " ", "#", ";", NL}

PrefixChoices == {CP, <<";", "#">>, <<"#">>}

InitComment ==
    /\ pc = "start"
    /\ value \in Str(CommentAlphabet, MaxLineLen)
    /\ comment_prefixes \in PrefixChoices
    /\ sep = Unused /\ key_sep = Unused /\ subsplit_dangling = TRUE
    /\ ret = Unused /\ obj = Unused /\ container = Unused
    /\ path = Unused /\ op = "split_comment" /\ fn = Unused /\ log = <<>>

SplitComment ==
    /\ pc = "start"
    /\ pc' = "done"
    /\ ret' = split_comment(value, Noop, comment_prefixes)
    /\ UNCHANGED <<value, sep, key_sep, subsplit_dangling, comment_prefixes,
                   obj, container, path, fn, op, log>>

NextComment == SplitComment

SpecComment == InitComment /\ [][NextComment]_vars

\* ----------------------------------------------------------------- CommentedKV

KeyItem(k, v) == [kind |-> "kv", key |-> k, value |-> v, comment |-> None]

CommentLine(c) == [kind |-> "comment", key |-> <<>>, value |-> <<>>, comment |-> Some(c)]

\* table() / inline_table()
table(multiline) ==
    [type |-> IF multiline THEN "table" ELSE "inline_table", body |-> <<>>, comment |-> None]

KeyIndex(out, k) ==
    IF \E i \in 1..Len(out.body) : out.body[i].kind = "kv" /\ out.body[i].key = k
    THEN CHOOSE i \in 1..Len(out.body) : out.body[i].kind = "kv" /\ out.body[i].key = k
    ELSE 0

\* out[k] = v: a new key is appended, a known key has its value replaced in
\* place (the replaced item's trivia, its comment included, is carried over)
table_setitem(out, k, v) ==
    IF KeyIndex(out, k) = 0 THEN [out EXCEPT !.body = Append(@, KeyItem(k, v))]
    ELSE [out EXCEPT !.body[KeyIndex(out, k)].value = v]

\* out[k].comment(text)
table_item_comment(out, k, c) == [out EXCEPT !.body[KeyIndex(out, k)].comment = Some(c)]

\* out.append(None, comment(text))
table_append_comment(out, c) == [out EXCEPT !.body = Append(@, CommentLine(c))]

RECURSIVE table_update(_, _)
table_update(out, pairs) ==
    IF pairs = <<>> THEN out
    ELSE table_update(table_setitem(out, pairs[1][1], pairs[1][2]), Tail(pairs))

CommentedKV(data) == [cls |-> "CommentedKV", data |-> data, comment |-> None]

\* the loop of CommentedKV.as_toml_obj from entry i on
RECURSIVE kv_loop(_, _, _, _)
kv_loop(self, i, out, multiline) ==
    IF i > Len(self.data) THEN [out |-> out, self |-> self]
    ELSE LET entry  == self.data[i]
             values == value_or(entry, <<>>)
             k      == IF values = <<>> THEN None ELSE Some(values[Len(values)][1])
             out1   == table_update(out, values)
         IN  IF ~has_comment(entry) THEN kv_loop(self, i + 1, out1, multiline)
             ELSE IF ~multiline
             THEN [out  |-> node_comment(out1, entry.comment[1]),
                   self |-> [self EXCEPT !.comment = entry.comment]]
             ELSE IF k # None /\ k[1] # <<>>
             THEN kv_loop(self, i + 1,
                          table_item_comment(out1, k[1], entry.comment[1]), multiline)
             ELSE kv_loop(self, i + 1,
                          table_append_comment(out1, entry.comment[1]), multiline)

CommentedKV_as_toml_obj(self) ==
    LET multiline == Len(self.data) > 1
    IN  kv_loop(self, 1, table(multiline), multiline)

\* ------------------------------------------------------------- split_kv_pairs

split_kv_pairs(v, ks, coerce_fn, ps, subsplit, cp0) ==
    LET cp     == replace(replace(cp0, ks), ps)
        values == splitlines(strip(v))
        ps2    == list_sep(ps, values, subsplit)
    IN  CommentedKV([i \in 1..Len(values) |->
                        split_comment(values[i], SplitKVPairFn(ks, ps2, coerce_fn), cp)])

\* ------------------------------------------------------------------ appliers

\* what calling a transformation yields: an exception, or a processed value
\* that either is a plain object or has an as_toml_obj method
Raises == [raised |-> TRUE, kind |-> "exception", value |-> <<>>]

Returns(kind, v) == [raised |-> FALSE, kind |-> kind, value |-> v]

\* fn(value) for the transformations the specifications pass to apply
call(f, v) ==
    CASE f.name = "raise"      -> Raises
      [] f.name = "const"      -> Returns("plain", f.result)
      [] f.name = "noop"       -> Returns("plain", v)
      [] f.name = "split_list" ->
            Returns("CommentedList", split_list(v, f.sep, Noop, f.subsplit_dangling,
                                                f.comment_prefixes))
      [] f.name = "split_kv_pairs" ->
            Returns("CommentedKV", split_kv_pairs(v, f.key_sep, Noop, f.sep,
                                                  f.subsplit_dangling, f.comment_prefixes))

add_to_container(c, field, processed) ==
    IF processed.kind = "plain" THEN [c EXCEPT ![field] = processed.value]
    ELSE LET store(r) ==
                 [c EXCEPT ![field] =
                     IF r.self.comment # None THEN node_comment(r.out, r.self.comment[1])
                     ELSE r.out]
         IN  store(IF processed.kind = "CommentedList"
                   THEN CommentedList_as_toml_obj(processed.value)
                   ELSE CommentedKV_as_toml_obj(processed.value))

Warning(v) == [level |-> "WARNING", msg |-> "Impossible to transform", value |-> v]

Debug == [level |-> "DEBUG", msg |-> "Please check the following details", value |-> <<>>]

\* the result of a call of an applier: the container after it, the records
\* logged, the exception that left the call ("none": it returned the
\* container) and how often the transformation was called
Result(c, lg, raised, calls) ==
    [container |-> c, log |-> lg, raised |-> raised, calls |-> calls]

\* mutant: a failed transformation clears the field
apply_clears_field(c, field, f, lg) ==
    IF field \notin DOMAIN c THEN Result(c, lg, "KeyError", 0)
    ELSE LET v == c[field]
             finish(processed) ==
                 IF processed.raised
                 THEN Result([c EXCEPT ![field] = processed.value],
                             lg \o <<Warning(v), Debug>>, "none", 1)
                 ELSE Result(add_to_container(c, field, processed), lg, "none", 1)
         IN  finish(call(f, v))

apply(c, field, f, lg) ==
    IF field \notin DOMAIN c THEN Result(c, lg, "KeyError", 0)
    ELSE LET v == c[field]
             finish(processed) ==
                 IF processed.raised
                 THEN Result(c, lg \o <<Warning(v), Debug>>, "none", 1)
                 ELSE Result(add_to_container(c, field, processed), lg, "none", 1)
         IN  finish(call(f, v))

\* ------------------------------------------------- nested containers (access)

EmptyMap == [k \in {} |-> 0]

\* the values a container holds: plain objects, named by their literal, and
\* nested mappings
Leaf(v) == [t |-> "leaf", v |-> v, m |-> EmptyMap]

Map(m) == [t |-> "map", v |-> "", m |-> m]

PyNone == [t |-> "none", v |-> "None", m |-> EmptyMap]

\* bool(x): None, 0, "" and [] are false, and so is an empty mapping
truthy(x) ==
    CASE x.t = "none" -> FALSE
      [] x.t = "map"  -> x.m # EmptyMap
      [] x.t = "leaf" -> x.v \notin {"0", "''", "[]"}

\* get_nested(m, keys, default=None): the lookup raises on a value that
\* cannot be indexed by a key
RECURSIVE get_nested(_, _)
get_nested(x, keys) ==
    IF keys = <<>> THEN [raised |-> "none", value |-> x]
    ELSE IF x.t # "map" THEN [raised |-> "TypeError", value |-> PyNone]
    ELSE IF keys[1] \notin DOMAIN x.m THEN [raised |-> "none", value |-> PyNone]
    ELSE get_nested(x.m[keys[1]], Tail(keys))

\* the container with the mapping at `keys` replaced by the mutated mapping
RECURSIVE with_nested(_, _, _)
with_nested(c, keys, m) ==
    IF keys = <<>> THEN m
    ELSE [c EXCEPT ![keys[1]] = Map(with_nested(c[keys[1]].m, Tail(keys), m))]

\* mutant: a lookup that found nothing is not told from a non-mapping
apply_nested_no_guard(c, p, f, lg) ==
    LET parent == SubSeq(p, 1, Len(p) - 1)
        last   == p[Len(p)]
        got    == get_nested(Map(c), parent)
        nested == got.value
    IN  IF got.raised # "none" THEN Result(c, lg, got.raised, 0)
        ELSE IF nested.t # "map" THEN Result(c, lg, "ValueError", 0)
        ELSE IF last \in DOMAIN nested.m
        THEN LET finish(r) ==
                     Result(with_nested(c, parent, r.container), r.log, "none", r.calls)
             IN  finish(apply(nested.m, last, f, lg))
        ELSE Result(c, lg, "none", 0)

apply_nested(c, p, f, lg) ==
    LET parent == SubSeq(p, 1, Len(p) - 1)
        last   == p[Len(p)]
        got    == get_nested(Map(c), parent)
        nested == got.value
    IN  IF got.raised # "none" THEN Result(c, lg, got.raised, 0)
        ELSE IF ~truthy(nested) THEN Result(c, lg, "none", 0)
        ELSE IF nested.t # "map" THEN Result(c, lg, "ValueError", 0)
        ELSE IF last \in DOMAIN nested.m
        THEN LET finish(r) ==
                     Result(with_nested(c, parent, r.container), r.log, "none", r.calls)
             IN  finish(apply(nested.m, last, f, lg))
        ELSE Result(c, lg, "none", 0)

\* ------------------------------------------------------ specification: appliers

Keys == {"a", "b"}

Leaves == {Leaf("'x'"), Leaf("0"), Leaf("''")}

Absent == [t |-> "absent", v |-> "", m |-> EmptyMap]

Mapping(va, vb) ==
    [k \in {x \in Keys : (x = "a" /\ va # Absent) \/ (x = "b" /\ vb # Absent)} |->
        IF k = "a" THEN va ELSE vb]

\* the mappings nested at most d deep; only key "a" holds nested mappings
RECURSIVE Mappings(_)
Mappings(d) ==
    LET deeper == IF d <= 1 THEN {} ELSE {Map(m) : m \in Mappings(d - 1)}
    IN  {Mapping(va, vb) : va \in {Absent} \cup Leaves \cup deeper,
                           vb \in {Absent} \cup Leaves}

Paths == UNION {[1..n -> Keys] : n \in 1..MaxPathLen}

Transformations ==
    {[name |-> "raise", result |-> PyNone], [name |-> "const", result |-> Leaf("'y'")]}

NoCall == Result(<<>>, <<>>, "none", 0)

InitApply ==
    /\ pc = "start"
    /\ container \in Mappings(MaxDepth)
    /\ value = Unused /\ sep = Unused /\ key_sep = Unused
    /\ subsplit_dangling = TRUE /\ comment_prefixes = CP
    /\ ret = NoCall /\ obj = Unused
    /\ path = <<>> /\ op = "none" /\ fn = Unused /\ log = <<>>

Apply ==
    /\ pc = "start"
    /\ \E field \in Keys, f \in Transformations :
          LET return(r) ==
                  /\ pc' = "done"
                  /\ op' = "apply" /\ path' = <<field>> /\ fn' = f
                  /\ container' = r.container /\ log' = r.log /\ ret' = r
          IN  return(apply(container, field, f, log))
    /\ UNCHANGED <<value, sep, key_sep, subsplit_dangling, comment_prefixes, obj>>

ApplyNested ==
    /\ pc = "start"
    /\ \E p \in Paths, f \in Transformations :
          LET return(r) ==
                  /\ pc' = "done"
                  /\ op' = "apply_nested" /\ path' = p /\ fn' = f
                  /\ container' = r.container /\ log' = r.log /\ ret' = r
          IN  return(apply_nested(container, p, f, log))
    /\ UNCHANGED <<value, sep, key_sep, subsplit_dangling, comment_prefixes, obj>>

NextApply == Apply \/ ApplyNested

SpecApply == InitApply /\ [][NextApply]_vars

\* ---------------------------------------------------- specification: split_list

ListAlphabet == {"a", ",", " ", "#", NL}

ListSeps == {<<",">>, <<"#">>, <<"#", "#">>}

SplitListFn ==
    [name |-> "split_list", sep |-> sep, subsplit_dangling |-> subsplit_dangling,
     comment_prefixes |-> comment_prefixes]

InitList ==
    /\ pc = "start"
    /\ value \in Str(ListAlphabet, MaxListLen)
    /\ sep \in ListSeps
    /\ subsplit_dangling \in BOOLEAN
    /\ comment_prefixes = CP
    /\ key_sep = Unused
    /\ ret = Unused /\ obj = Unused
    /\ container = [k \in {"opt"} |-> value]
    /\ path = <<"opt">> /\ op = "split_list" /\ fn = Unused /\ log = <<>>

SplitList ==
    /\ pc = "start"
    /\ pc' = "split"
    /\ ret' = split_list(value, sep, Noop, subsplit_dangling, comment_prefixes)
    /\ UNCHANGED <<value, sep, key_sep, subsplit_dangling, comment_prefixes,
                   obj, container, path, fn, op, log>>

ListAsTomlObj ==
    /\ pc = "split"
    /\ pc' = "toml"
    /\ LET r == CommentedList_as_toml_obj(ret)
       IN  obj' = r.out /\ ret' = r.self
    /\ UNCHANGED <<value, sep, key_sep, subsplit_dangling, comment_prefixes,
                   container, path, fn, op, log>>

ApplySplitList ==
    /\ pc = "start"
    /\ pc' = "applied"
    /\ LET r == apply(container, path[1], SplitListFn, log)
       IN  container' = r.container /\ log' = r.log
    /\ UNCHANGED <<value, sep, key_sep, subsplit_dangling, comment_prefixes,
                   ret, obj, path, fn, op>>

\* ------------------------------------------------ specification: split_kv_pairs

KVAlphabet == {"a", "=", ",", "#", NL}

SplitKVFn ==
    [name |-> "split_kv_pairs", key_sep |-> key_sep, sep |-> sep,
     subsplit_dangling |-> subsplit_dangling, comment_prefixes |-> comment_prefixes]

InitKV ==
    /\ pc = "start"
    /\ value \in Str(KVAlphabet, MaxKVLen)
    /\ sep = <<",">>
    /\ key_sep = <<"=">>
    /\ subsplit_dangling \in BOOLEAN
    /\ comment_prefixes = CP
    /\ ret = Unused /\ obj = Unused
    /\ container = [k \in {"opt"} |-> value]
    /\ path = <<"opt">> /\ op = "split_kv_pairs" /\ fn = Unused /\ log = <<>>

SplitKV ==
    /\ pc = "start"
    /\ pc' = "split"
    /\ ret' = split_kv_pairs(value, key_sep, Noop, sep, subsplit_dangling, comment_prefixes)
    /\ UNCHANGED <<value, sep, key_sep, subsplit_dangling, comment_prefixes,
                   obj, container, path, fn, op, log>>

KVAsTomlObj ==
    /\ pc = "split"
    /\ pc' = "toml"
    /\ LET r == CommentedKV_as_toml_obj(ret)
       IN  obj' = r.out /\ ret' = r.self
    /\ UNCHANGED <<value, sep, key_sep, subsplit_dangling, comment_prefixes,
                   container, path, fn, op, log>>

ApplySplitKV ==
    /\ pc = "start"
    /\ pc' = "applied"
    /\ LET r == apply(container, path[1], SplitKVFn, log)
       IN  container' = r.container /\ log' = r.log
    /\ UNCHANGED <<value, sep, key_sep, subsplit_dangling, comment_prefixes,
                   ret, obj, path, fn, op>>

NextKV == SplitKV \/ KVAsTomlObj \/ ApplySplitKV

SpecKV == InitKV /\ [][NextKV]_vars

NextList == SplitList \/ ListAsTomlObj \/ ApplySplitList

SpecList == InitList /\ [][NextList]_vars

\* ------------------------------------------------ specification: coerce_scalar

ScalarAlphabet == {"0", "1", "2", "4", "n", "a", "o", "N", " ", "-", ".", "_"}

InitScalar ==
    /\ pc = "start"
    /\ value \in Str(ScalarAlphabet, MaxScalarLen)
    /\ comment_prefixes = CP
    /\ sep = Unused /\ key_sep = Unused /\ subsplit_dangling = TRUE
    /\ ret = Unused /\ obj = Unused /\ container = Unused
    /\ path = Unused /\ op = "coerce_scalar" /\ fn = Unused /\ log = <<>>

CoerceScalar ==
    /\ pc = "start"
    /\ pc' = "done"
    /\ ret' = coerce_scalar(value)
    /\ UNCHANGED <<value, sep, key_sep, subsplit_dangling, comment_prefixes,
                   obj, container, path, fn, op, log>>

NextScalar == CoerceScalar

SpecScalar == InitScalar /\ [][NextScalar]_vars

\* ------------------------------------------------------------ claim C4

SingleLine(s) == NL \notin Chars(s)

\* first character of cp, in cp order, that occurs in line
FirstPrefix(cp, line) ==
    cp[CHOOSE j \in 1..Len(cp) :
          /\ cp[j] \in Chars(line)
          /\ \A k \in 1..(j - 1) : cp[k] \notin Chars(line)]

FirstIndex(line, p) ==
    CHOOSE i \in 1..Len(line) : line[i] = p /\ \A k \in 1..(i - 1) : line[k] # p

CleanComment(t, cp) == strip(lstrip(strip(t), Chars(cp)))

\* what C4 states for a line, given what rule (1) passes to coerce_fn and
\* what rule (3) yields for an empty right part
C4Expected(line, cp, whole, emptyRight) ==
    IF Chars(cp) \cap Chars(line) = {}
    THEN Commented(whole, None)
    ELSE IF strip(line) # <<>> /\ strip(line)[1] \in Chars(cp)
    THEN CommentOnly(Some(CleanComment(line, cp)))
    ELSE LET i     == FirstIndex(line, FirstPrefix(cp, line))
             right == SubSeq(line, i + 1, Len(line))
         IN  Commented(strip(SubSeq(line, 1, i - 1)),
                       IF strip(right) = <<>> THEN emptyRight
                       ELSE Some(CleanComment(right, cp)))

\* C4 as stated: rule (1) passes the line itself to coerce_fn, rule (3) always
\* yields the cleaned right part as the comment.
C4_AsStated ==
    (pc = "done" /\ SingleLine(value))
        => ret = C4Expected(value, comment_prefixes, value, Some(<<>>))

\* C4 (amended): for every single-line string, split_comment returns the first
\* matching rule's result, where rule (1) coerces the trimmed line and rule (3)
\* leaves the comment absent when nothing but whitespace follows the prefix.
C4_SplitCommentRules ==
    (pc = "done" /\ SingleLine(value))
        => ret = C4Expected(value, comment_prefixes, strip(value), None)

\* "a;#a" under prefixes "#;": split at "#", not at the earlier ";"
C4_Witness ==
    /\ pc = "done"
    /\ value = <<"a", ";", "#", "a">>
    /\ comment_prefixes = CP
    /\ ret = Commented(<<"a", ";">>, Some(<<"a">>))

\* ------------------------------------------------------------ claim C7

AllDigit(s) == s # <<>> /\ Chars(s) \subseteq {Digits[d] : d \in 1..Len(Digits)}

TrueLiterals == {<<"t", "r", "u", "e">>, <<"1">>, <<"y", "e", "s">>, <<"o", "n">>}

FalseLiterals ==
    {<<"f", "a", "l", "s", "e">>, <<"0">>, <<"n", "o">>, <<"o", "f", "f">>,
     <<"n", "o", "n", "e">>, <<"n", "u", "l", "l">>, <<"n", "i", "l">>}

\* the order of attempts C7 states, on the text s, with fallback result `other`
C7Order(s, other, floatOk) ==
    IF AllDigit(s) THEN ret = PyInt(int(s))
    ELSE IF is_float(s) THEN floatOk
    ELSE IF lower(s) \in TrueLiterals THEN ret = PyBool(TRUE)
    ELSE IF lower(s) \in FalseLiterals THEN ret = PyBool(FALSE)
    ELSE ret = other

\* C7 as stated: the attempts are made on s itself and the fallback is s,
\* exactly as given.
C7_AsStated ==
    pc = "done" => C7Order(value, PyStr(value), ret.t = "float")

\* C7 (amended): coerce_scalar trims s first; on the trimmed text it tries
\* integer, float (float() raising ValueError on text is_float accepts and
\* float() rejects), true, false, and otherwise returns the trimmed text.
C7_CoerceScalarOrder ==
    pc = "done" =>
        /\ C7Order(strip(value), PyStr(strip(value)), ret = float(strip(value)))
        /\ value = <<"4", "2">> => ret = PyInt(42)
        /\ value \in {<<"1">>, <<"0">>} => ret.t = "int"
        /\ value = NAN => ret = PyFloatSpecial(<<>>, NAN)
        /\ (ret.t = "str" /\ strip(value) = value) => ret.s = value

\* " 42" is trimmed and read as the integer 42
C7_Witness ==
    pc = "done" /\ value = <<" ", "4", "2">> /\ ret = PyInt(42)

\* ------------------------------------------- claims C5, C6, C9, C10 (lists)

\* the physical lines of a trimmed text, by the positions of its newlines
NewlinesBefore(v, i) == Cardinality({j \in 1..(i - 1) : v[j] = NL})

LineCount(v) == IF v = <<>> THEN 0 ELSE count(v, NL) + 1

RECURSIVE Pick(_, _)
Pick(v, keep) ==
    IF keep = {} THEN <<>>
    ELSE LET i == CHOOSE x \in keep : \A y \in keep : x <= y
         IN  <<v[i]>> \o Pick(v, keep \ {i})

LineAt(v, k) ==
    Pick(v, {i \in 1..Len(v) : v[i] # NL /\ NewlinesBefore(v, i) = k - 1})

\* the comment prefixes left after line 294 removed the separator
EffectivePrefixes == replace(comment_prefixes, sep)

\* line k of the input split into content and comment, nothing sub-split
LineEntry(k) ==
    LET line == LineAt(strip(value), k)
    IN  C4Expected(line, EffectivePrefixes, strip(line), None)

AsOneElement(e) ==
    IF e.given /\ e.value # <<>> THEN [e EXCEPT !.value = <<@>>] ELSE e

AAnlA == <<"a", ",", "a", NL, "a">>

\* C5: split_list returns one entry per physical line of the trimmed input,
\* in line order; with several lines and subsplit_dangling false each line
\* with content before its comment contributes exactly one element, the whole
\* trimmed content; with subsplit_dangling true the lines are split on sep.
C5_OneEntryPerLine ==
    pc = "split" =>
        /\ Len(ret.data) = LineCount(strip(value))
        /\ \A k \in 1..Len(ret.data) :
              /\ ret.data[k].given = LineEntry(k).given
              /\ ret.data[k].comment = LineEntry(k).comment
              /\ (Len(ret.data) > 1 /\ ~subsplit_dangling)
                    => ret.data[k] = AsOneElement(LineEntry(k))
              /\ (Len(ret.data) > 1 /\ subsplit_dangling)
                    => \A j \in 1..Len(ret.data[k].value) :
                          ~contains(ret.data[k].value[j], sep)
        /\ (value = AAnlA /\ sep = <<",">> /\ ~subsplit_dangling)
              => /\ ret.data[1].value = << <<"a", ",", "a">> >>
                 /\ ret.data[2].value = << <<"a">> >>
        /\ (value = AAnlA /\ sep = <<",">> /\ subsplit_dangling)
              => /\ ret.data[1].value = << <<"a">>, <<"a">> >>
                 /\ ret.data[2].value = << <<"a">> >>

\* "a,a\na" without sub-splitting: two entries, the first the whole "a,a"
C5_Witness ==
    /\ pc = "split" /\ value = AAnlA /\ sep = <<",">> /\ ~subsplit_dangling
    /\ Len(ret.data) = 2
    /\ ret.data[1].value = << <<"a", ",", "a">> >>

CarriesComment(e) == e.comment # None /\ e.comment # Some(<<>>)

\* the array elements one entry accounts for
Block(e) ==
    LET vals == IF e.given THEN e.value ELSE <<>>
    IN  IF ~CarriesComment(e) THEN [i \in 1..Len(vals) |-> ValueItem(vals[i])]
        ELSE IF vals = <<>> THEN <<CommentItem(e.comment[1])>>
        ELSE [i \in 1..Len(vals) |->
                 IF i = Len(vals) THEN [ValueItem(vals[i]) EXCEPT !.comment = e.comment]
                 ELSE ValueItem(vals[i])]

RECURSIVE Blocks(_)
Blocks(data) == IF data = <<>> THEN <<>> ELSE Block(data[1]) \o Blocks(Tail(data))

MultilineArray(data) ==
    [type |-> "array", multiline |-> TRUE, items |-> Blocks(data), comment |-> None]

\* C6: a CommentedList with more than one entry materializes to a multi-line
\* array holding the entries' values in entry order; an entry's comment sits
\* on the last element that entry appended, or on a line of its own when the
\* entry appended none; never on another entry's element nor on the array
\* itself, also once apply has written the array into the container.
C6_CommentsStayOnTheirLine ==
    /\ (pc = "toml" /\ Len(ret.data) > 1) => obj = MultilineArray(ret.data)
    /\ (pc = "applied" /\ LineCount(strip(value)) > 1)
          => container[path[1]] =
                MultilineArray(split_list(value, sep, Noop, subsplit_dangling,
                                          comment_prefixes).data)

\* "a#a\na": the comment is on the first element, not on the second
C6_Witness ==
    /\ pc = "applied" /\ value = <<"a", "#", "a", NL, "a">> /\ sep = <<",">>
    /\ Len(container[path[1]].items) = 2
    /\ container[path[1]].items[1].comment = Some(<<"a">>)
    /\ container[path[1]].items[2].comment = None
    /\ container[path[1]].comment = None

RECURSIVE DropEmptyAfterTrim(_)
DropEmptyAfterTrim(pieces) ==
    IF pieces = <<>> THEN <<>>
    ELSE (IF strip(pieces[1]) # <<>> THEN <<strip(pieces[1])>> ELSE <<>>)
         \o DropEmptyAfterTrim(Tail(pieces))

\* C9: the element splitter splits on sep, trims each piece and drops every
\* piece that is empty after trimming, so no entry of the CommentedList holds
\* an empty-string element.
C9_NoEmptyElements ==
    (pc = "split" /\ (subsplit_dangling \/ Len(ret.data) <= 1)) =>
        \A k \in 1..Len(ret.data) :
            /\ \A j \in 1..Len(ret.data[k].value) : ret.data[k].value[j] # <<>>
            /\ ret.data[k].given
                  => ret.data[k].value = DropEmptyAfterTrim(split(LineEntry(k).value, sep))

\* C10: every character of sep is removed from the comment prefixes, so a
\* line whose only prefix characters belong to sep never yields a comment.
C10_SeparatorNeverComment ==
    pc = "split" =>
        \A k \in 1..Len(ret.data) :
            (Chars(LineAt(strip(value), k)) \cap (Chars(comment_prefixes) \ Chars(sep)) = {})
                => ret.data[k].given /\ ret.data[k].comment = None

\* ------------------------------------------------------------ claim C8

EntryKeys(e) == IF e.given THEN {e.value[j][1] : j \in 1..Len(e.value)} ELSE {}

\* no key is set by two entries, so no entry overwrites another's value
KeysSetOnce(data) ==
    \A k1, k2 \in 1..Len(data) : k1 # k2 => EntryKeys(data[k1]) \cap EntryKeys(data[k2]) = {}

LastKey(e) == e.value[Len(e.value)][1]

\* C8: with more than one entry the result is a table where every commented
\* entry that set a key (whatever the key, the empty key included) has its
\* comment on the value under the last key it set, and every commented entry
\* that set no key yields a full-line comment; with exactly one entry the
\* result is an inline table carrying the entry's comment.
C8_CommentOnLastKey ==
    (pc = "toml" /\ KeysSetOnce(ret.data)) =>
        /\ Len(ret.data) > 1 =>
              /\ obj.type = "table"
              /\ \A k \in 1..Len(ret.data) :
                    LET e == ret.data[k]
                    IN  CarriesComment(e) =>
                            IF EntryKeys(e) # {}
                            THEN \E i \in 1..Len(obj.body) :
                                    /\ obj.body[i].kind = "kv"
                                    /\ obj.body[i].key = LastKey(e)
                                    /\ obj.body[i].comment = e.comment
                            ELSE \E i \in 1..Len(obj.body) :
                                    obj.body[i] = CommentLine(e.comment[1])
        /\ Len(ret.data) = 1 =>
              /\ obj.type = "inline_table"
              /\ CarriesComment(ret.data[1]) => obj.comment = ret.data[1].comment

\* ------------------------------------------------------- claims C1, C2, C3

Warnings(lg) == Cardinality({i \in 1..Len(lg) : lg[i].level = "WARNING"})

\* the step is a call of `op` from a container that has seen no call yet
Calls(name) == pc = "start" /\ pc' = "done" /\ op' = name

\* C1: when fn raises on container[field], apply raises nothing, returns the
\* container, leaves every key of it as it was before the call and logs
\* exactly one warning-level record.
C1_FailSoftApply ==
    [][(Calls("apply") /\ path'[1] \in DOMAIN container /\ fn'.name = "raise")
          => /\ ret'.raised = "none"
             /\ ret'.container = container
             /\ container' = container
             /\ Warnings(log') = Warnings(log) + 1]_vars

\* apply has run a raising transformation on a present field
C1_Witness ==
    /\ pc = "done" /\ op = "apply" /\ fn.name = "raise"
    /\ path[1] \in DOMAIN container
    /\ ret.calls = 1 /\ ret.raised = "none"
    /\ Warnings(log) = 1

\* walking p through nested mappings reaches a mapping that lacks the next
\* segment (an intermediate one or the final one)
RECURSIVE SegmentAbsent(_, _)
SegmentAbsent(x, p) ==
    /\ p # <<>>
    /\ x.t = "map"
    /\ p[1] \notin DOMAIN x.m \/ SegmentAbsent(x.m[p[1]], Tail(p))

\* C2: when an intermediate segment of the path is absent, or the final one
\* is absent from the resolved mapping, apply_nested raises nothing, never
\* calls fn and returns the container with every key at every level unchanged.
C2_AbsentSegmentIsNoOp ==
    [][(Calls("apply_nested") /\ SegmentAbsent(Map(container), path'))
          => /\ ret'.raised = "none"
             /\ ret'.calls = 0
             /\ ret'.container = container
             /\ container' = container
             /\ log' = log]_vars

\* apply_nested(container, [a, b, *], fn) where container[a] is a mapping
\* without b
C2_Witness ==
    /\ pc = "done" /\ op = "apply_nested" /\ Len(path) = 3
    /\ path[1] = "a" /\ path[2] = "b"
    /\ "a" \in DOMAIN container /\ container["a"].t = "map"
    /\ "b" \notin DOMAIN container["a"].m
    /\ ret.raised = "none" /\ ret.calls = 0

\* the segments keys resolve, each in a mapping that holds it, to a value
\* that is no mapping
RECURSIVE ResolvesToNonMapping(_, _)
ResolvesToNonMapping(x, keys) ==
    IF keys = <<>> THEN x.t = "leaf"
    ELSE /\ x.t = "map"
         /\ keys[1] \in DOMAIN x.m
         /\ ResolvesToNonMapping(x.m[keys[1]], Tail(keys))

\* C3: when the parent segments resolve to a value that is present and not a
\* mapping (falsy values such as 0, "" or [] included), apply_nested fails
\* with the invalid-path error, does not call fn and does not modify the
\* container.
C3_NonMappingParentFails ==
    [][(Calls("apply_nested")
        /\ ResolvesToNonMapping(Map(container), SubSeq(path', 1, Len(path') - 1)))
          => /\ ret'.raised = "ValueError"
             /\ ret'.calls = 0
             /\ container' = container]_vars

====
